---- MODULE Spec2Model ----
(***************************************************************************)
(* SmartSubs: the transcription pipeline of main.py and transcribe.py.     *)
(* One behaviour is one run of one entry point: validate the input path,   *)
(* prepare the file (audio extraction for a video), upload, stream the     *)
(* transcription with continuations, save it, then optionally translate.   *)
(*                                                                         *)
(* Text is a sequence of tokens (strings).  The model's output tokens are  *)
(* numbered in the order they are streamed, so that a dropped, repeated or *)
(* reordered piece of text is visible in the saved output.                 *)
(***************************************************************************)
EXTENDS Integers, Sequences, FiniteSets, TLC

VARIABLES
    variant,            \* which entry point runs: "main" (main.py) or "transcribe" (transcribe.py)
    argv,               \* the command line
    max_continuations,  \* TranscriptionConfig.max_continuations / the parameter's default
    pc,                 \* position of the run in main()
    exit_status,        \* -1 while running, else the process exit status
    processed_file,     \* the path prepare_file returned
    extracted,          \* extract_audio calls made: <<video path, audio path, result>>
    uploaded,           \* paths handed to client.aio.files.upload
    task,               \* "Transcription" or "Translation" (task_type), "" before
    messages,           \* the `messages` list of transcribe()/translate()
    g,                  \* the frame of get_complete_response
    files,              \* files written by save_to_srt, in order
    stdout,             \* what was printed (errors and warnings only)
    trace,              \* pipeline steps taken, in order
    stream_calls,       \* histories passed to model.astream by the current get_complete_response
    parts,              \* what each attempt of the latest get_complete_response streamed, chunk by chunk
    chunks_seen,        \* current attempt: chunks received, last finish reason a chunk carried
    next_token,         \* number of the next token the model streams
    limit_hits,         \* attempts of the latest get_complete_response whose finish reason was MAX_TOKENS
    returned_count,     \* per task: continuation count get_complete_response returned
    eq                  \* paired frames of the two get_complete_response (equivalence runs)

vars == <<variant, argv, max_continuations, pc, exit_status, processed_file,
          extracted, uploaded, task, messages, g, files, stdout, trace,
          stream_calls, parts, chunks_seen, next_token, limit_hits,
          returned_count, eq>>

----------------------------------------------------------------------------
\* Bounds of the model.
MaxContinuations == 1      \* max_continuations ranges over 0..MaxContinuations
MaxChunks == 2             \* chunks per streamed attempt
MaxTokens == 2             \* tokens the model streams in one run

----------------------------------------------------------------------------
\* Text helpers.

RECURSIVE Flatten(_)
Flatten(ss) == IF ss = <<>> THEN <<>> ELSE Head(ss) \o Flatten(Tail(ss))

RECURSIVE CountOf(_, _)
CountOf(tok, s) ==
    IF s = <<>> THEN 0
    ELSE (IF Head(s) = tok THEN 1 ELSE 0) + CountOf(tok, Tail(s))

Token(n) == ToString(n)

\* str.lower() and str.replace(' ', '_'), character by character.
UpperCase == <<"A","B","C","D","E","F","G","H","I","J","K","L","M",
               "N","O","P","Q","R","S","T","U","V","W","X","Y","Z">>
LowerCase == <<"a","b","c","d","e","f","g","h","i","j","k","l","m",
               "n","o","p","q","r","s","t","u","v","w","x","y","z">>

LowerChar(c) ==
    IF \E i \in 1..26 : UpperCase[i] = c
    THEN LowerCase[CHOOSE i \in 1..26 : UpperCase[i] = c]
    ELSE c

lang_suffix(target_language) ==
    [i \in 1..Len(target_language) |->
        LET c == LowerChar(target_language[i]) IN IF c = " " THEN "_" ELSE c]

----------------------------------------------------------------------------
\* Prompts and configuration (main.py; transcribe.py has the same literals).

separator == "========================"
merge_sign == <<"MERGED">>
DEFAULT_SYSTEM_MESSAGE == <<"SYSTEM">>
DEFAULT_CONTINUE_MESSAGE == <<"Continue from where you left off.">>
DEFAULT_TRANSLATION_PROMPT(target_language) ==
    <<"Translate the above content to">> \o target_language \o <<", output a proper .srt file.">>
DefaultLanguage == <<"E","n","g","l","i","s","h">>

SystemMessage(content) == [type |-> "system", content |-> content]
HumanMessage(content)  == [type |-> "human",  content |-> content]
AIMessage(content)     == [type |-> "ai",     content |-> content]

TRUNCATED_FINISH_REASONS == {"MAX_TOKENS", "SAFETY", "BLOCKLIST", "PROHIBITED_CONTENT"}

\* main.py AudioTranscriber.is_response_truncated
AudioTranscriber_is_response_truncated(finish_reason) ==
    finish_reason \in TRUNCATED_FINISH_REASONS

\* transcribe.py is_response_truncated
is_response_truncated(finish_reason) ==
    IF finish_reason \in {"MAX_TOKENS", "SAFETY", "BLOCKLIST", "PROHIBITED_CONTENT"}
    THEN TRUE ELSE FALSE

----------------------------------------------------------------------------
\* video_split.py

extension_map(codec_name) ==
    CASE codec_name = "aac" -> "aac"
      [] codec_name = "mp3" -> "mp3"
      [] codec_name = "ac3" -> "ac3"
      [] codec_name = "opus" -> "opus"
      [] codec_name = "vorbis" -> "ogg"
      [] codec_name = "flac" -> "flac"
      [] codec_name = "pcm_s16le" -> "wav"
      [] OTHER -> codec_name

\* PurePath.with_suffix for names without a dot in the stem.
with_suffix(path, suffix) == [path EXCEPT !.suffix = suffix]

get_output_path(file) == with_suffix(file.path, extension_map(file.codec))

\* The input files a run may be given.  codec "" is a container without an
\* audio stream (get_audio_codec raises); extract_ok is what extract_audio
\* returns for it.
InputFiles ==
    { [path |-> [name |-> <<"t","a","l","k">>, suffix |-> "mp3"], exists |-> FALSE,
       video |-> FALSE, codec |-> "mp3", extract_ok |-> FALSE],
      [path |-> [name |-> <<"t","a","l","k">>, suffix |-> "mp3"], exists |-> TRUE,
       video |-> FALSE, codec |-> "mp3", extract_ok |-> FALSE],
      [path |-> [name |-> <<"c","l","i","p">>, suffix |-> "mp4"], exists |-> TRUE,
       video |-> TRUE, codec |-> "aac", extract_ok |-> TRUE],
      [path |-> [name |-> <<"c","l","i","p">>, suffix |-> "mkv"], exists |-> TRUE,
       video |-> TRUE, codec |-> "vorbis", extract_ok |-> FALSE],
      [path |-> [name |-> <<"m","u","t","e">>, suffix |-> "mp4"], exists |-> TRUE,
       video |-> TRUE, codec |-> "", extract_ok |-> FALSE] }

Languages == { <<"T","o","k","i"," ","P","o","n","a">> }

----------------------------------------------------------------------------
\* The chunks a stream may deliver: content is empty or the next token;
\* response_metadata is a set of <<key, value>> pairs, possibly empty and
\* possibly without a finish_reason.
FinishReasons == TRUNCATED_FINISH_REASONS \cup {"STOP"}

Metadata == { {}, {<<"model_name", "gemini">>} }
            \cup { {<<"finish_reason", r>>} : r \in FinishReasons }

Chunks(n) ==
    [content : IF n <= MaxTokens THEN {<<>>, <<Token(n)>>} ELSE {<<>>},
     response_metadata : Metadata]

HasFinishReason(md) == \E kv \in md : kv[1] = "finish_reason"
FinishReasonOf(md) == (CHOOSE kv \in md : kv[1] = "finish_reason")[2]

----------------------------------------------------------------------------
\* get_complete_response, main.py lines 148-191.  The frame is a record:
\* the locals of the function and the position in it.

\* lines 150-152
MainEnter(msgs) ==
    [messages |-> msgs, complete_response |-> <<>>, continuation_count |-> 0,
     current_response |-> <<>>, finish_reason |-> "", at |-> "while",
     warned |-> FALSE]

\* MainWhile without the reset of finish_reason at line 161
MainWhile_KeepsReason(f, maxc) ==
    IF f.continuation_count <= maxc
    THEN [f EXCEPT !.current_response = <<>>, !.at = "astream"]
    ELSE [f EXCEPT !.at = "after_loop"]

\* lines 154-163: the loop test, and the start of a streamed attempt
MainWhile(f, maxc) ==
    IF f.continuation_count <= maxc
    THEN [f EXCEPT !.current_response = <<>>, !.finish_reason = "", !.at = "astream"]
    ELSE [f EXCEPT !.at = "after_loop"]

\* lines 164-169: one chunk of the stream
MainChunk(f, chunk) ==
    LET f1 == IF chunk.content # <<>>
              THEN [f EXCEPT !.current_response = @ \o chunk.content]
              ELSE f
    IN IF chunk.response_metadata # {} /\ HasFinishReason(chunk.response_metadata)
       THEN [f1 EXCEPT !.finish_reason = FinishReasonOf(chunk.response_metadata)]
       ELSE f1

\* MainEndOfStream with `>` for `>=` in the test of line 174
MainEndOfStream_OffByOne(f, maxc, disable_merge_sign) ==
    LET sign == IF disable_merge_sign THEN <<>> ELSE merge_sign
        complete == f.complete_response \o sign \o f.current_response
    IN IF ~AudioTranscriber_is_response_truncated(f.finish_reason)
          \/ f.continuation_count > maxc
       THEN [f EXCEPT !.complete_response = complete,
                      !.messages = Append(@, AIMessage(complete)),
                      !.at = "after_loop"]
       ELSE [f EXCEPT !.complete_response = complete,
                      !.continuation_count = @ + 1,
                      !.messages = @ \o <<AIMessage(f.current_response),
                                          HumanMessage(DEFAULT_CONTINUE_MESSAGE)>>,
                      !.at = "while"]

\* MainEndOfStream with line 152 ignoring disable_merge_sign
MainEndOfStream_AlwaysSigns(f, maxc, disable_merge_sign) ==
    LET complete == f.complete_response \o merge_sign \o f.current_response
    IN IF ~AudioTranscriber_is_response_truncated(f.finish_reason)
          \/ f.continuation_count >= maxc
       THEN [f EXCEPT !.complete_response = complete,
                      !.messages = Append(@, AIMessage(complete)),
                      !.at = "after_loop"]
       ELSE [f EXCEPT !.complete_response = complete,
                      !.continuation_count = @ + 1,
                      !.messages = @ \o <<AIMessage(f.current_response),
                                          HumanMessage(DEFAULT_CONTINUE_MESSAGE)>>,
                      !.at = "while"]

\* lines 171-185: the stream has ended
MainEndOfStream(f, maxc, disable_merge_sign) ==
    LET sign == IF disable_merge_sign THEN <<>> ELSE merge_sign
        complete == f.complete_response \o sign \o f.current_response
    IN IF ~AudioTranscriber_is_response_truncated(f.finish_reason)
          \/ f.continuation_count >= maxc
       THEN [f EXCEPT !.complete_response = complete,
                      !.messages = Append(@, AIMessage(complete)),
                      !.at = "after_loop"]
       ELSE [f EXCEPT !.complete_response = complete,
                      !.continuation_count = @ + 1,
                      !.messages = @ \o <<AIMessage(f.current_response),
                                          HumanMessage(DEFAULT_CONTINUE_MESSAGE)>>,
                      !.at = "while"]

\* lines 187-191
MainAfterLoop(f, maxc) ==
    [f EXCEPT !.warned = (f.continuation_count > maxc), !.at = "return"]

----------------------------------------------------------------------------
\* get_complete_response, transcribe.py lines 109-149.

\* lines 113-114
TrEnter(msgs) ==
    [messages |-> msgs, complete_response |-> <<>>, continuation_count |-> 0,
     current_response |-> <<>>, finish_reason |-> "", at |-> "while",
     warned |-> FALSE]

\* lines 116-121
TrWhile(f, maxc) ==
    IF f.continuation_count <= maxc
    THEN [f EXCEPT !.current_response = <<>>, !.finish_reason = "", !.at = "astream"]
    ELSE [f EXCEPT !.at = "after_loop"]

\* lines 122-127
TrChunk(f, chunk) ==
    LET f1 == IF chunk.content # <<>>
              THEN [f EXCEPT !.current_response = @ \o chunk.content]
              ELSE f
    IN IF chunk.response_metadata # {} /\ HasFinishReason(chunk.response_metadata)
       THEN [f1 EXCEPT !.finish_reason = FinishReasonOf(chunk.response_metadata)]
       ELSE f1

\* TrEndOfStream with `=` for `+=` at line 129
TrEndOfStream_Overwrites(f, maxc) ==
    LET complete == f.current_response
    IN IF ~is_response_truncated(f.finish_reason) \/ f.continuation_count >= maxc
       THEN [f EXCEPT !.complete_response = complete,
                      !.messages = Append(@, AIMessage(complete)),
                      !.at = "after_loop"]
       ELSE [f EXCEPT !.complete_response = complete,
                      !.continuation_count = @ + 1,
                      !.messages = @ \o <<AIMessage(f.current_response),
                                          HumanMessage(DEFAULT_CONTINUE_MESSAGE)>>,
                      !.at = "while"]

\* lines 129-143
TrEndOfStream(f, maxc) ==
    LET complete == f.complete_response \o f.current_response
    IN IF ~is_response_truncated(f.finish_reason) \/ f.continuation_count >= maxc
       THEN [f EXCEPT !.complete_response = complete,
                      !.messages = Append(@, AIMessage(complete)),
                      !.at = "after_loop"]
       ELSE [f EXCEPT !.complete_response = complete,
                      !.continuation_count = @ + 1,
                      !.messages = @ \o <<AIMessage(f.current_response),
                                          HumanMessage(DEFAULT_CONTINUE_MESSAGE)>>,
                      !.at = "while"]

\* lines 145-149
TrAfterLoop(f, maxc) ==
    [f EXCEPT !.warned = (f.continuation_count > maxc), !.at = "return"]

----------------------------------------------------------------------------
\* Command line.  language <<>> stands for "--language not given".

\* MainParseArgs with --no-translate parsed but not stored
MainParseArgs_AlwaysTranslates(av) ==
    [file |-> av.file,
     translate |-> TRUE,
     language |-> IF av.language = <<>> THEN DefaultLanguage ELSE av.language,
     disable_merge_sign |-> IF av.disable_merge_sign THEN TRUE ELSE FALSE]

\* main.py ArgumentParser.create_parser, lines 244-278
MainParseArgs(av) ==
    [file |-> av.file,
     translate |-> IF av.no_translate THEN FALSE ELSE TRUE,
     language |-> IF av.language = <<>> THEN DefaultLanguage ELSE av.language,
     disable_merge_sign |-> IF av.disable_merge_sign THEN TRUE ELSE FALSE]

\* transcribe.py lines 207-216 (no merge sign in this script)
TrParseArgs(av) ==
    [file |-> av.file,
     translate |-> IF av.no_translate THEN FALSE ELSE TRUE,
     language |-> IF av.language = <<>> THEN DefaultLanguage ELSE av.language,
     disable_merge_sign |-> TRUE]

args == IF variant = "main" THEN MainParseArgs(argv) ELSE TrParseArgs(argv)

CommandLines ==
    [file : InputFiles, no_translate : BOOLEAN,
     language : {<<>>} \cup Languages, disable_merge_sign : BOOLEAN]

\* Dispatch to the get_complete_response of the running entry point.
Enter(msgs) == IF variant = "main" THEN MainEnter(msgs) ELSE TrEnter(msgs)
While(f) == IF variant = "main" THEN MainWhile(f, max_continuations)
            ELSE TrWhile(f, max_continuations)
OnChunk(f, c) == IF variant = "main" THEN MainChunk(f, c) ELSE TrChunk(f, c)
EndOfStream(f) ==
    IF variant = "main"
    THEN MainEndOfStream(f, max_continuations, args.disable_merge_sign)
    ELSE TrEndOfStream(f, max_continuations)
AfterLoop(f) == IF variant = "main" THEN MainAfterLoop(f, max_continuations)
                ELSE TrAfterLoop(f, max_continuations)

NoFrame == MainEnter(<<>>)
EqIdle == [on |-> FALSE, m |-> NoFrame, t |-> NoFrame, maxc |-> 0,
           m_calls |-> <<>>, t_calls |-> <<>>, n_chunks |-> 0, next_token |-> 1]

Event(step, t) == [step |-> step, task |-> t]

\* main.py get_warning_message lines 96-109, transcribe.py lines 59-65
get_warning_message(continuation_count, task_type) ==
    [line |-> "WARNING: may be incomplete, token limit reached",
     task_type |-> task_type, count |-> continuation_count,
     merge_sign_info |-> (variant = "main" /\ ~args.disable_merge_sign)]

\* save_to_srt: main.py lines 138-146, transcribe.py lines 98-107
save_to_srt(transcript_data, filename, task_type) ==
    [name |-> with_suffix(filename, "srt"), data |-> transcript_data,
     task_type |-> task_type]

----------------------------------------------------------------------------
Init ==
    /\ variant \in {"main", "transcribe"}
    /\ argv \in CommandLines
    /\ variant = "transcribe" => ~argv.disable_merge_sign
    /\ max_continuations \in 0..MaxContinuations
    /\ pc = "validate"
    /\ exit_status = -1
    /\ processed_file = [name |-> <<>>, suffix |-> ""]
    /\ extracted = <<>>
    /\ uploaded = <<>>
    /\ task = ""
    /\ messages = <<>>
    /\ g = NoFrame
    /\ files = <<>>
    /\ stdout = <<>>
    /\ trace = <<>>
    /\ stream_calls = <<>>
    /\ parts = <<>>
    /\ chunks_seen = [n |-> 0, last_reason |-> ""]
    /\ next_token = 1
    /\ limit_hits = 0
    /\ returned_count = [t \in {"Transcription", "Translation"} |-> -1]
    /\ eq = EqIdle

\* ValidateFilePath without the sys.exit(1) after the error message
ValidateFilePath_NoExit ==
    /\ pc = "validate"
    /\ trace' = Append(trace, Event("validate", ""))
    /\ stdout' = IF ~args.file.exists
                 THEN Append(stdout, [line |-> "Error: File does not exist."])
                 ELSE stdout
    /\ pc' = "prepare_file"
    /\ UNCHANGED <<variant, argv, max_continuations, exit_status, processed_file,
                   extracted, uploaded, task, messages, g, files, stream_calls,
                   parts, chunks_seen, next_token, limit_hits, returned_count, eq>>

\* main.py validate_file_path lines 281-285 (called at 292);
\* transcribe.py lines 218-220
ValidateFilePath ==
    /\ pc = "validate"
    /\ trace' = Append(trace, Event("validate", ""))
    /\ IF ~args.file.exists
       THEN /\ stdout' = Append(stdout, [line |-> "Error: File does not exist."])
            /\ exit_status' = 1
            /\ pc' = "exited"
       ELSE /\ pc' = "prepare_file"
            /\ UNCHANGED <<stdout, exit_status>>
    /\ UNCHANGED <<variant, argv, max_continuations, processed_file, extracted,
                   uploaded, task, messages, g, files, stream_calls, parts,
                   chunks_seen, next_token, limit_hits, returned_count, eq>>

\* prepare_file: main.py lines 117-125 (called at 299), transcribe.py lines
\* 77-84 (called at 199).  get_output_path raises when the video has no audio
\* stream (video_split.py line 26); the result of extract_audio is not used.
PrepareFile ==
    /\ pc = "prepare_file"
    /\ IF ~args.file.video
       THEN /\ processed_file' = args.file.path
            /\ trace' = Append(trace, Event("detect_video", ""))
            /\ pc' = "transcribe"
            /\ UNCHANGED <<extracted, exit_status>>
       ELSE IF args.file.codec = ""
       THEN /\ trace' = Append(trace, Event("detect_video", ""))
            /\ pc' = "raised"
            /\ exit_status' = 1
            /\ UNCHANGED <<processed_file, extracted>>
       ELSE LET output_audio == get_output_path(args.file) IN
            /\ extracted' = Append(extracted,
                                   <<args.file.path, output_audio, args.file.extract_ok>>)
            /\ processed_file' = output_audio
            /\ trace' = trace \o <<Event("detect_video", ""), Event("extract_audio", "")>>
            /\ pc' = "transcribe"
            /\ UNCHANGED exit_status
    /\ UNCHANGED <<variant, argv, max_continuations, uploaded, task, messages,
                   g, files, stdout, stream_calls, parts, chunks_seen,
                   next_token, limit_hits, returned_count, eq>>

\* transcribe() up to the call of get_complete_response: main.py lines
\* 193-207 with upload_audio 127-136; transcribe.py lines 151-161, 86-96
Transcribe ==
    /\ pc = "transcribe"
    /\ LET audio_msg == HumanMessage(<<"media">> \o processed_file.name
                                     \o <<".", processed_file.suffix>>)
           msgs == <<SystemMessage(DEFAULT_SYSTEM_MESSAGE), audio_msg>>
       IN /\ uploaded' = Append(uploaded, processed_file)
          /\ messages' = msgs
          /\ g' = Enter(msgs)
    /\ task' = "Transcription"
    /\ trace' = Append(trace, Event("upload", ""))
    /\ stream_calls' = <<>>
    /\ parts' = <<>>
    /\ limit_hits' = 0
    /\ pc' = "get_complete_response"
    /\ UNCHANGED <<variant, argv, max_continuations, exit_status, processed_file,
                   extracted, files, stdout, chunks_seen, next_token,
                   returned_count, eq>>

\* get_complete_response: the loop test and the call of model.astream
LoopTest ==
    /\ pc = "get_complete_response"
    /\ g.at = "while"
    /\ g' = While(g)
    /\ IF g'.at = "astream"
       THEN /\ stream_calls' = Append(stream_calls, g.messages)
            /\ trace' = Append(trace, Event("astream", task))
            /\ parts' = Append(parts, <<>>)
       ELSE UNCHANGED <<stream_calls, trace, parts>>
    /\ chunks_seen' = [n |-> 0, last_reason |-> ""]
    /\ UNCHANGED <<variant, argv, max_continuations, pc, exit_status,
                   processed_file, extracted, uploaded, task, messages, files,
                   stdout, next_token, limit_hits, returned_count, eq>>

\* get_complete_response: the body of `async for chunk in model.astream`
ReceiveChunk ==
    /\ pc = "get_complete_response"
    /\ g.at = "astream"
    /\ chunks_seen.n < MaxChunks
    /\ \E chunk \in Chunks(next_token) :
          /\ g' = OnChunk(g, chunk)
          /\ next_token' = IF chunk.content = <<>> THEN next_token ELSE next_token + 1
          /\ chunks_seen' =
                [n |-> chunks_seen.n + 1,
                 last_reason |-> IF HasFinishReason(chunk.response_metadata)
                                 THEN FinishReasonOf(chunk.response_metadata)
                                 ELSE chunks_seen.last_reason]
          /\ parts' = [parts EXCEPT ![Len(parts)] = @ \o chunk.content]
    /\ UNCHANGED <<variant, argv, max_continuations, pc, exit_status,
                   processed_file, extracted, uploaded, task, messages, files,
                   stdout, trace, stream_calls, limit_hits, returned_count, eq>>

\* get_complete_response: the stream ended; complete or continue
StreamEnds ==
    /\ pc = "get_complete_response"
    /\ g.at = "astream"
    /\ g' = EndOfStream(g)
    /\ limit_hits' = IF chunks_seen.last_reason = "MAX_TOKENS"
                     THEN limit_hits + 1 ELSE limit_hits
    /\ UNCHANGED <<variant, argv, max_continuations, pc, exit_status,
                   processed_file, extracted, uploaded, task, messages, files,
                   stdout, trace, stream_calls, parts, chunks_seen, next_token,
                   returned_count, eq>>

\* get_complete_response: after the loop, the warning and the return
Return ==
    /\ pc = "get_complete_response"
    /\ g.at = "after_loop"
    /\ g' = AfterLoop(g)
    /\ stdout' = IF g'.warned
                 THEN Append(stdout, [line |-> "Warning: Reached maximum continuation attempts",
                                      task_type |-> task])
                 ELSE stdout
    /\ returned_count' = [returned_count EXCEPT ![task] = g.continuation_count]
    /\ UNCHANGED <<variant, argv, max_continuations, pc, exit_status,
                   processed_file, extracted, uploaded, task, messages, files,
                   trace, stream_calls, parts, chunks_seen, next_token,
                   limit_hits, eq>>

\* FinishTranscribe returning the history without the save_to_srt call
FinishTranscribe_NoSave ==
    /\ pc = "get_complete_response"
    /\ g.at = "return"
    /\ task = "Transcription"
    /\ messages' = g.messages
    /\ stdout' = IF g.continuation_count > 0
                 THEN Append(stdout, get_warning_message(g.continuation_count, "Transcription"))
                 ELSE stdout
    /\ pc' = "translate_or_skip"
    /\ g' = NoFrame
    /\ chunks_seen' = [n |-> 0, last_reason |-> ""]
    /\ limit_hits' = 0
    /\ UNCHANGED <<variant, argv, max_continuations, exit_status, processed_file,
                   extracted, uploaded, task, files, trace, stream_calls, parts,
                   next_token, returned_count, eq>>

\* transcribe() after get_complete_response returned: main.py lines 207-217,
\* transcribe.py lines 161-173
FinishTranscribe ==
    /\ pc = "get_complete_response"
    /\ g.at = "return"
    /\ task = "Transcription"
    /\ messages' = g.messages
    /\ LET full_response == g.messages[Len(g.messages)].content IN
          files' = Append(files, save_to_srt(full_response, processed_file, "Transcript"))
    /\ stdout' = IF g.continuation_count > 0
                 THEN Append(stdout, get_warning_message(g.continuation_count, "Transcription"))
                 ELSE stdout
    /\ trace' = Append(trace, Event("save_to_srt", task))
    /\ pc' = "translate_or_skip"
    /\ g' = NoFrame
    /\ chunks_seen' = [n |-> 0, last_reason |-> ""]
    /\ limit_hits' = 0
    /\ UNCHANGED <<variant, argv, max_continuations, exit_status, processed_file,
                   extracted, uploaded, task, stream_calls, parts,
                   next_token, returned_count, eq>>

\* main(): main.py lines 305-306 and translate() lines 219-229;
\* transcribe.py lines 202-203 and 175-185
StartTranslate ==
    /\ pc = "translate_or_skip"
    /\ args.translate
    /\ LET translation_prompt == DEFAULT_TRANSLATION_PROMPT(args.language)
           msgs == Append(messages, HumanMessage(translation_prompt))
       IN /\ messages' = msgs
          /\ g' = Enter(msgs)
    /\ task' = "Translation"
    /\ trace' = Append(trace, Event("translation_prompt", "Translation"))
    /\ stream_calls' = <<>>
    /\ parts' = <<>>
    /\ limit_hits' = 0
    /\ pc' = "get_complete_response"
    /\ UNCHANGED <<variant, argv, max_continuations, exit_status, processed_file,
                   extracted, uploaded, files, stdout, chunks_seen, next_token,
                   returned_count, eq>>

\* main(): main.py lines 307-308, transcribe.py lines 204-205
SkipTranslate ==
    /\ pc = "translate_or_skip"
    /\ ~args.translate
    /\ stdout' = Append(stdout, [line |-> "Skipping translation due to --no-translate flag."])
    /\ pc' = "done"
    /\ exit_status' = 0
    /\ UNCHANGED <<variant, argv, max_continuations, processed_file, extracted,
                   uploaded, task, messages, g, files, trace, stream_calls,
                   parts, chunks_seen, next_token, limit_hits, returned_count, eq>>

\* translate() after get_complete_response returned: main.py lines 229-238,
\* transcribe.py lines 185-195
FinishTranslate ==
    /\ pc = "get_complete_response"
    /\ g.at = "return"
    /\ task = "Translation"
    /\ messages' = g.messages
    /\ LET translation_response == g.messages[Len(g.messages)].content
           output_filename == [name |-> processed_file.name \o <<"_">>
                                          \o lang_suffix(args.language),
                               suffix |-> ""]
       IN files' = Append(files, save_to_srt(translation_response, output_filename,
                                             "Translation"))
    /\ stdout' = IF g.continuation_count > 0
                 THEN Append(stdout, get_warning_message(g.continuation_count, "Translation"))
                 ELSE stdout
    /\ trace' = Append(trace, Event("save_to_srt", task))
    /\ pc' = "done"
    /\ exit_status' = 0
    /\ g' = NoFrame
    /\ chunks_seen' = [n |-> 0, last_reason |-> ""]
    /\ limit_hits' = 0
    /\ UNCHANGED <<variant, argv, max_continuations, processed_file, extracted,
                   uploaded, task, stream_calls, parts, next_token,
                   returned_count, eq>>

Next ==
    \/ ValidateFilePath
    \/ PrepareFile
    \/ Transcribe
    \/ LoopTest
    \/ ReceiveChunk
    \/ StreamEnds
    \/ Return
    \/ FinishTranscribe
    \/ StartTranslate
    \/ SkipTranslate
    \/ FinishTranslate

Spec == Init /\ [][Next]_vars

----------------------------------------------------------------------------
\* Equivalence runs: the get_complete_response of main.py, merge sign
\* disabled, and the one of transcribe.py are given the same history, the
\* same max_continuations and the same stream, chunk by chunk.

pipeline_vars == <<variant, argv, max_continuations, pc, exit_status,
                   processed_file, extracted, uploaded, task, messages, g,
                   files, stdout, trace, stream_calls, parts, chunks_seen,
                   next_token, limit_hits, returned_count>>

InitialHistories ==
    { <<SystemMessage(DEFAULT_SYSTEM_MESSAGE), HumanMessage(<<"media">>)>>,
      <<SystemMessage(DEFAULT_SYSTEM_MESSAGE), HumanMessage(<<"media">>),
        AIMessage(<<"0">>), HumanMessage(DEFAULT_TRANSLATION_PROMPT(DefaultLanguage))>> }

InitEq ==
    /\ variant = "main"
    /\ argv = [file |-> CHOOSE f \in InputFiles : f.exists /\ ~f.video,
               no_translate |-> FALSE, language |-> <<>>, disable_merge_sign |-> TRUE]
    /\ max_continuations = 0
    /\ pc = "equivalence"
    /\ exit_status = -1
    /\ processed_file = [name |-> <<>>, suffix |-> ""]
    /\ extracted = <<>>
    /\ uploaded = <<>>
    /\ task = ""
    /\ messages = <<>>
    /\ g = NoFrame
    /\ files = <<>>
    /\ stdout = <<>>
    /\ trace = <<>>
    /\ stream_calls = <<>>
    /\ parts = <<>>
    /\ chunks_seen = [n |-> 0, last_reason |-> ""]
    /\ next_token = 1
    /\ limit_hits = 0
    /\ returned_count = [t \in {"Transcription", "Translation"} |-> -1]
    /\ \E msgs \in InitialHistories, maxc \in 0..MaxContinuations :
          eq = [on |-> TRUE, m |-> MainEnter(msgs), t |-> TrEnter(msgs),
                maxc |-> maxc, m_calls |-> <<>>, t_calls |-> <<>>,
                n_chunks |-> 0, next_token |-> 1]

EqLoopTest ==
    /\ eq.on
    /\ eq.m.at = "while" \/ eq.t.at = "while"
    /\ LET m1 == IF eq.m.at = "while" THEN MainWhile(eq.m, eq.maxc) ELSE eq.m
           t1 == IF eq.t.at = "while" THEN TrWhile(eq.t, eq.maxc) ELSE eq.t
       IN eq' = [eq EXCEPT
                   !.m = m1, !.t = t1,
                   !.m_calls = IF eq.m.at = "while" /\ m1.at = "astream"
                               THEN Append(@, eq.m.messages) ELSE @,
                   !.t_calls = IF eq.t.at = "while" /\ t1.at = "astream"
                               THEN Append(@, eq.t.messages) ELSE @,
                   !.n_chunks = 0]
    /\ UNCHANGED pipeline_vars

EqReceiveChunk ==
    /\ eq.on
    /\ eq.m.at = "astream" \/ eq.t.at = "astream"
    /\ eq.n_chunks < MaxChunks
    /\ \E chunk \in Chunks(eq.next_token) :
          eq' = [eq EXCEPT
                   !.m = IF @.at = "astream" THEN MainChunk(@, chunk) ELSE @,
                   !.t = IF @.at = "astream" THEN TrChunk(@, chunk) ELSE @,
                   !.n_chunks = @ + 1,
                   !.next_token = IF chunk.content = <<>> THEN @ ELSE @ + 1]
    /\ UNCHANGED pipeline_vars

EqStreamEnds ==
    /\ eq.on
    /\ eq.m.at = "astream" \/ eq.t.at = "astream"
    /\ eq' = [eq EXCEPT
                !.m = IF @.at = "astream" THEN MainEndOfStream(@, eq.maxc, TRUE) ELSE @,
                !.t = IF @.at = "astream" THEN TrEndOfStream(@, eq.maxc) ELSE @]
    /\ UNCHANGED pipeline_vars

EqReturn ==
    /\ eq.on
    /\ eq.m.at = "after_loop" \/ eq.t.at = "after_loop"
    /\ eq' = [eq EXCEPT
                !.m = IF @.at = "after_loop" THEN MainAfterLoop(@, eq.maxc) ELSE @,
                !.t = IF @.at = "after_loop" THEN TrAfterLoop(@, eq.maxc) ELSE @]
    /\ UNCHANGED pipeline_vars

NextEq ==
    \/ EqLoopTest
    \/ EqReceiveChunk
    \/ EqStreamEnds
    \/ EqReturn

SpecEq == InitEq /\ [][NextEq]_vars

TypeOK ==
    /\ pc \in {"validate", "exited", "prepare_file", "raised", "transcribe",
               "get_complete_response", "translate_or_skip", "done", "equivalence"}
    /\ g.continuation_count \in Nat

----------------------------------------------------------------------------
\* Properties.

InResponseLoop == pc = "get_complete_response"
Last(s) == s[Len(s)]

\* Steps get_complete_response can still take: every attempt is the loop
\* test, at most MaxChunks chunks and the end of the stream; the return
\* follows the loop.
StepsLeft ==
    LET attempt == MaxChunks + 2
        after == max_continuations - g.continuation_count
    IN CASE g.at = "while" -> (after + 1) * attempt + 1
         [] g.at = "astream" -> after * attempt + (MaxChunks - chunks_seen.n) + 2
         [] g.at = "after_loop" -> 1
         [] OTHER -> 0

\* C1: get_complete_response terminates (while it has not returned it can
\* take a step, and every step it takes lowers StepsLeft, which is never
\* negative); it makes at most max_continuations + 1 stream calls; the
\* continuation count it returns is the number of stream calls minus one and
\* is at most max_continuations.
C1_CallsBounded ==
    /\ [](InResponseLoop =>
            /\ Len(stream_calls) <= max_continuations + 1
            /\ StepsLeft >= 0
            /\ g.at # "return" => ENABLED (LoopTest \/ ReceiveChunk \/ StreamEnds \/ Return)
            /\ g.at \in {"after_loop", "return"} =>
                  /\ g.continuation_count = Len(stream_calls) - 1
                  /\ g.continuation_count <= max_continuations)
    /\ [][(InResponseLoop /\ InResponseLoop' /\ g' # g) => StepsLeft' < StepsLeft]_vars

C1_Witness ==
    /\ InResponseLoop
    /\ g.at = "return"
    /\ max_continuations >= 1
    /\ g.continuation_count = max_continuations
    /\ Len(stream_calls) = max_continuations + 1

\* C2: when a streamed attempt ends, a continuation prompt is appended and
\* another attempt is made exactly when the last finish reason carried by a
\* chunk of that attempt is MAX_TOKENS, SAFETY, BLOCKLIST or
\* PROHIBITED_CONTENT and the continuation count is below max_continuations;
\* otherwise the loop ends.  Every attempt starts with no finish reason.
C2_ContinuesIffTruncated ==
    [][ /\ (InResponseLoop /\ g.at = "astream" /\ g'.at # "astream") =>
             IF /\ chunks_seen.last_reason \in
                      {"MAX_TOKENS", "SAFETY", "BLOCKLIST", "PROHIBITED_CONTENT"}
                /\ g.continuation_count < max_continuations
             THEN /\ g'.at = "while"
                  /\ g'.continuation_count = g.continuation_count + 1
                  /\ Len(g'.messages) = Len(g.messages) + 2
                  /\ Last(g'.messages) = HumanMessage(DEFAULT_CONTINUE_MESSAGE)
             ELSE /\ g'.at = "after_loop"
                  /\ g'.continuation_count = g.continuation_count
                  /\ Len(g'.messages) = Len(g.messages) + 1
                  /\ Last(g'.messages).type = "ai"
        /\ (InResponseLoop /\ g.at = "while" /\ g' # g) =>
             /\ g'.at = "astream"
             /\ g'.finish_reason = ""
             /\ Len(stream_calls') = Len(stream_calls) + 1
      ]_vars

\* An attempt without any finish reason completed the response after an
\* earlier attempt was truncated.
C2_Witness ==
    /\ InResponseLoop
    /\ g.at = "after_loop"
    /\ g.continuation_count >= 1
    /\ chunks_seen.n > 0
    /\ chunks_seen.last_reason = ""
    /\ Last(g.messages).type = "ai"

\* C3: in transcribe.py, and in main.py with the merge sign disabled, the
\* last message of the returned history, which is the text saved, is the
\* concatenation of everything the attempts of the call streamed, in order.
C3_OutputIsConcatenation ==
    (variant = "transcribe" \/ argv.disable_merge_sign) =>
        /\ (InResponseLoop /\ g.at = "return") =>
              Last(g.messages) = AIMessage(Flatten(parts))
        /\ (pc \in {"translate_or_skip", "done"} /\ files # <<>>) =>
              Last(files).data = Flatten(parts)

C3_Witness ==
    /\ variant = "transcribe"
    /\ pc = "translate_or_skip"
    /\ Len(parts) >= 2
    /\ parts[1] # <<>>
    /\ parts[2] # <<>>
    /\ Last(files).data = <<"1", "2">>

RECURSIVE JoinWith(_, _)
JoinWith(ss, sep) ==
    IF ss = <<>> THEN <<>>
    ELSE IF Len(ss) = 1 THEN Head(ss)
    ELSE Head(ss) \o sep \o JoinWith(Tail(ss), sep)

\* C4: in main.py with the merge sign enabled the saved output is the
\* partial responses with one merge sign between each two consecutive ones:
\* as many merge signs as continuations, none without a continuation.
C4_MergeSignPerContinuation ==
    (variant = "main" /\ ~argv.disable_merge_sign
       /\ pc \in {"translate_or_skip", "done"} /\ files # <<>>) =>
        /\ Last(files).data = JoinWith(parts, <<"MERGED">>)
        /\ CountOf("MERGED", Last(files).data) = returned_count[task]
        /\ returned_count[task] = 0 => CountOf("MERGED", Last(files).data) = 0

Rank(e) ==
    CASE e.step = "validate" -> 1
      [] e.step = "detect_video" -> 2
      [] e.step = "extract_audio" -> 3
      [] e.step = "upload" -> 4
      [] e.step = "astream" /\ e.task = "Transcription" -> 5
      [] e.step = "save_to_srt" /\ e.task = "Transcription" -> 6
      [] e.step = "translation_prompt" -> 7
      [] e.step = "astream" /\ e.task = "Translation" -> 8
      [] e.step = "save_to_srt" /\ e.task = "Translation" -> 9
      [] OTHER -> 0

StepsTaken == {Rank(trace[i]) : i \in 1..Len(trace)}

IsTranslationPrompt(m) ==
    /\ m.type = "human"
    /\ m.content # <<>>
    /\ m.content[1] = "Translate the above content to"

\* C5: the steps of one run come in the order validate, prepare file
\* (extraction for a video), upload, transcription streams, transcript file,
\* translation request, translation streams, translation file.  No stream
\* call precedes the upload, no file is written before the response loop of
\* its task has ended, and the translation request follows the transcript
\* file.
C5_PipelineOrder ==
    /\ \A i \in 1..(Len(trace) - 1) :
          /\ Rank(trace[i]) <= Rank(trace[i + 1])
          /\ Rank(trace[i]) = Rank(trace[i + 1]) => trace[i].step = "astream"
    /\ \A r \in StepsTaken : r # 0
    /\ 4 \in StepsTaken => {1, 2} \subseteq StepsTaken
    /\ (4 \in StepsTaken /\ argv.file.video) => 3 \in StepsTaken
    /\ \A r \in 5..9 : r \in StepsTaken => (r - 1) \in StepsTaken
    /\ stream_calls # <<>> => uploaded # <<>>
    /\ Len(files) >= 1 => returned_count["Transcription"] >= 0
    /\ Len(files) >= 2 => returned_count["Translation"] >= 0
    /\ (InResponseLoop /\ g.at # "return") => Len(files) = (IF task = "Translation" THEN 1 ELSE 0)
    /\ \A c \in 1..Len(stream_calls) :
          (\E k \in 1..Len(stream_calls[c]) : IsTranslationPrompt(stream_calls[c][k]))
              => Len(files) >= 1 /\ files[1].task_type = "Transcript"

C5_Witness ==
    /\ pc = "done"
    /\ argv.file.video
    /\ StepsTaken = 1..9
    /\ Len(files) = 2

\* C6: a response still truncated when the maximum number of continuation
\* attempts has been used makes get_complete_response print the 'Reached
\* maximum continuation attempts' warning before it returns.
C6_WarnsAtMaximum ==
    (InResponseLoop /\ g.at = "return"
       /\ chunks_seen.last_reason \in {"MAX_TOKENS", "SAFETY", "BLOCKLIST", "PROHIBITED_CONTENT"}
       /\ g.continuation_count >= max_continuations) =>
        \E i \in 1..Len(stdout) :
            stdout[i].line = "Warning: Reached maximum continuation attempts"

\* C7: the count shown by the 'may be incomplete' warning of a task, at the
\* step that prints it, is the number of attempts of that task whose finish
\* reason was MAX_TOKENS.
C7_WarningCountsTokenLimits ==
    [][(stdout' # stdout
          /\ Last(stdout').line = "WARNING: may be incomplete, token limit reached") =>
         Last(stdout').count = limit_hits]_vars

\* C8: translation is on by default.  Without --no-translate a finished run
\* has sent exactly one translation prompt, after the transcription, for
\* English unless --language was given, and has written two files; with
\* --no-translate no translation prompt is ever sent, no translation file is
\* written and a finished run has written the transcript only.
C8_TranslationOptional ==
    LET prompts(ms) == {k \in 1..Len(ms) : IsTranslationPrompt(ms[k])}
        language == IF argv.language = <<>> THEN <<"E","n","g","l","i","s","h">>
                    ELSE argv.language
    IN /\ Cardinality(prompts(messages)) <= 1
       /\ Cardinality(prompts(g.messages)) <= 1
       /\ argv.no_translate =>
            /\ prompts(messages) = {}
            /\ prompts(g.messages) = {}
            /\ task # "Translation"
            /\ \A i \in 1..Len(trace) : trace[i].step # "translation_prompt"
            /\ \A i \in 1..Len(files) : files[i].task_type # "Translation"
            /\ Len(files) <= 1
            /\ pc = "done" => Len(files) = 1 /\ files[1].task_type = "Transcript"
       /\ ~argv.no_translate =>
            /\ task = "Translation" => returned_count["Transcription"] >= 0
            /\ \A k \in prompts(messages) :
                  messages[k].content =
                     <<"Translate the above content to">> \o language
                        \o <<", output a proper .srt file.">>
            /\ pc = "done" =>
                  /\ Cardinality(prompts(messages)) = 1
                  /\ Len(files) = 2
                  /\ files[1].task_type = "Transcript"
                  /\ files[2].task_type = "Translation"
                  /\ files[1].name # files[2].name

C8_Witness ==
    /\ pc = "done"
    /\ ~argv.no_translate
    /\ argv.language = <<>>
    /\ Len(files) = 2

\* C9: when the input path does not exist the run prints an error and exits
\* with status 1 at the validation: no video detection, no extraction, no
\* upload, no stream call and no output file.
C9_MissingInputStopsRun ==
    ~argv.file.exists =>
        /\ pc \in {"validate", "exited"}
        /\ \A i \in 1..Len(trace) : trace[i].step = "validate"
        /\ extracted = <<>>
        /\ uploaded = <<>>
        /\ stream_calls = <<>>
        /\ files = <<>>
        /\ pc = "exited" =>
              /\ exit_status = 1
              /\ stdout = <<[line |-> "Error: File does not exist."]>>

C9_Witness ==
    /\ ~argv.file.exists
    /\ pc = "exited"
    /\ exit_status = 1

\* C10: given the same history, the same max_continuations and the same
\* stream, get_complete_response of main.py with the merge sign disabled and
\* get_complete_response of transcribe.py call the model with the same
\* histories, and hold and return the same history and continuation count.
C10_EntryPointsAgree ==
    eq.on =>
        /\ eq.m_calls = eq.t_calls
        /\ eq.m.at = eq.t.at
        /\ eq.m.messages = eq.t.messages
        /\ eq.m.continuation_count = eq.t.continuation_count
        /\ eq.m.warned = eq.t.warned

C10_Witness ==
    /\ eq.on
    /\ eq.m.at = "return"
    /\ eq.t.at = "return"
    /\ eq.t.continuation_count >= 1
    /\ Len(eq.m_calls) >= 2
    /\ Len(Last(eq.t.messages).content) >= 2

\* C11: for a video input the upload, and with it the transcription
\* request, is reached only after extract_audio succeeded for the uploaded
\* path; for a non-video input prepare_file returns the input path unchanged
\* and no extraction is made.
C11_UploadOnlyAfterExtraction ==
    /\ argv.file.video =>
          /\ \A u \in 1..Len(uploaded) :
                \E i \in 1..Len(extracted) :
                    extracted[i] = <<argv.file.path, uploaded[u], TRUE>>
          /\ stream_calls # <<>> =>
                \E i \in 1..Len(extracted) : extracted[i][3] = TRUE
    /\ ~argv.file.video =>
          /\ extracted = <<>>
          /\ \A i \in 1..Len(trace) : trace[i].step # "extract_audio"
          /\ pc \notin {"validate", "exited", "prepare_file"} =>
                processed_file = argv.file.path
          /\ \A u \in 1..Len(uploaded) : uploaded[u] = argv.file.path

====
